---- MODULE Spec2Model ----
(***************************************************************************)
(* A model of the MCP server builder front end: the client-side validator  *)
(* (validateTools), the function-name derivation of the code preview       *)
(* (generateServerCode) and the ProjectBuilder page that holds the tools,  *)
(* renders the validation panel and the preview, and offers the export.    *)
(*                                                                         *)
(* Strings are sequences of one-character strings, so that the regular     *)
(* expression, trim, toLowerCase and replace are computed character by     *)
(* character as the JavaScript does.                                       *)
(***************************************************************************)
EXTENDS Integers, Sequences, FiniteSets, TLC

\* Bounds of the model.
MaxTools == 2
MaxNameLen == 2

(***************************************************************************)
(* Characters.  One representative of every class the code distinguishes:  *)
(* a lower-case letter, its upper-case form, a digit, the underscore, the  *)
(* hyphen, the space (the only whitespace) and a punctuation character.    *)
(***************************************************************************)
\* [a-z]; the names that are enumerated use the letter a only.
LowerLetters ==
    {"a", "b", "c", "d", "e", "f", "g", "h", "i", "j", "k", "l", "m",
     "n", "o", "p", "q", "r", "s", "t", "u", "v", "w", "x", "y", "z"}
UpperLetters == {"A"}
Digits == {"1"}
Chars == {"a"} \cup UpperLetters \cup Digits \cup {"_", "-", " ", "."}

\* The JavaScript value undefined (an absent optional field).
Undefined == <<"undefined">>

\* All strings over Chars of length at most n.
Strings(n) == UNION {[1..k -> Chars] : k \in 0..n}

\* String.prototype.toLowerCase
toLowerCase(s) == [i \in 1..Len(s) |-> IF s[i] \in UpperLetters THEN "a" ELSE s[i]]

\* String.prototype.replace(/x/g, y) for a one-character pattern x
replaceAll(s, x, y) == [i \in 1..Len(s) |-> IF s[i] = x THEN y ELSE s[i]]

\* String.prototype.trim
RECURSIVE trimStart(_)
trimStart(s) == IF Len(s) > 0 /\ s[1] = " " THEN trimStart(Tail(s)) ELSE s

RECURSIVE trimEnd(_)
trimEnd(s) == IF Len(s) > 0 /\ s[Len(s)] = " " THEN trimEnd(SubSeq(s, 1, Len(s) - 1)) ELSE s

trim(s) == trimEnd(trimStart(s))

\* JavaScript truthiness of an optional string: defined and not empty.
Truthy(s) == s # Undefined /\ Len(s) > 0

\* /^[a-zA-Z_][a-zA-Z0-9_]*$/.test(s)
IdentifierRegexLax(s) ==
    /\ Len(s) > 0
    /\ \A i \in 1..Len(s) : s[i] \in LowerLetters \cup UpperLetters \cup Digits \cup {"_"}

IdentifierRegex(s) ==
    /\ Len(s) > 0
    /\ s[1] \in LowerLetters \cup UpperLetters \cup {"_"}
    /\ \A i \in 2..Len(s) : s[i] \in LowerLetters \cup UpperLetters \cup Digits \cup {"_"}

(***************************************************************************)
(* Tools.  The validator reads name, handler_type and handler_code.        *)
(***************************************************************************)
HandlerTypes == {"static", "api"}
HandlerCodes == {Undefined, <<>>, <<" ">>, <<".">>}

Tools == [name : Strings(MaxNameLen), handler_type : HandlerTypes, handler_code : HandlerCodes]

ToolSets == UNION {[1..k -> Tools] : k \in 0..MaxTools}

(***************************************************************************)
(* validateTools                                                           *)
(***************************************************************************)
Unnamed == <<"U", "n", "n", "a", "m", "e", "d">>

MsgToolsRequired == "At least one tool is required"
MsgNameRequired == "Tool name is required"
MsgDuplicate == "Duplicate tool name"
MsgIdentifier == "Tool name must be a valid Python identifier"
MsgApiEndpoint == "API endpoint URL is required for API handler type"

Error(tool, field, message) == [tool |-> tool, field |-> field, message |-> message]

\* Check for empty name
NameRequiredErrorsNoFallback(tool) ==
    IF ~Truthy(tool.name) \/ ~Truthy(trim(tool.name))
    THEN <<Error(tool.name, "name", MsgNameRequired)>>
    ELSE <<>>

NameRequiredErrors(tool) ==
    IF ~Truthy(tool.name) \/ ~Truthy(trim(tool.name))
    THEN <<Error(IF Truthy(tool.name) THEN tool.name ELSE Unnamed, "name", MsgNameRequired)>>
    ELSE <<>>

\* Check for duplicate names
DuplicateErrorsAddFirst(tool, toolNames) ==
    IF Truthy(tool.name) /\ toLowerCase(tool.name) \in toolNames \cup {toLowerCase(tool.name)}
    THEN <<Error(tool.name, "name", MsgDuplicate)>>
    ELSE <<>>

DuplicateErrors(tool, toolNames) ==
    IF Truthy(tool.name) /\ toLowerCase(tool.name) \in toolNames
    THEN <<Error(tool.name, "name", MsgDuplicate)>>
    ELSE <<>>

\* Check for invalid characters in name
IdentifierErrors(tool) ==
    IF Truthy(tool.name)
       /\ ~IdentifierRegex(replaceAll(replaceAll(tool.name, "-", "_"), " ", "_"))
    THEN <<Error(tool.name, "name", MsgIdentifier)>>
    ELSE <<>>

\* Check API handler has endpoint
ApiErrorsNoTrim(tool) ==
    IF tool.handler_type = "api" /\ ~Truthy(tool.handler_code)
    THEN <<Error(tool.name, "handler_code", MsgApiEndpoint)>>
    ELSE <<>>

ApiErrors(tool) ==
    IF tool.handler_type = "api"
       /\ ~(tool.handler_code # Undefined /\ Truthy(trim(tool.handler_code)))
    THEN <<Error(tool.name, "handler_code", MsgApiEndpoint)>>
    ELSE <<>>

\* The errors the loop body pushes for one tool, given the names seen so far.
ToolErrors(tool, toolNames) ==
    NameRequiredErrors(tool) \o DuplicateErrors(tool, toolNames)
        \o IdentifierErrors(tool) \o ApiErrors(tool)

\* The for loop over the tools, from tool i on.
RECURSIVE ValidateLoopStopAtFirst(_, _, _, _)
ValidateLoopStopAtFirst(tools_, i, toolNames, errors) ==
    IF i > Len(tools_) \/ Len(errors) > 0 THEN errors
    ELSE ValidateLoopStopAtFirst(tools_, i + 1,
                      toolNames \cup {toLowerCase(tools_[i].name)},
                      errors \o ToolErrors(tools_[i], toolNames))

RECURSIVE ValidateLoop(_, _, _, _)
ValidateLoop(tools_, i, toolNames, errors) ==
    IF i > Len(tools_) THEN errors
    ELSE ValidateLoop(tools_, i + 1,
                      toolNames \cup {toLowerCase(tools_[i].name)},
                      errors \o ToolErrors(tools_[i], toolNames))

validateToolsNoEmptyCheck(tools_) == ValidateLoop(tools_, 1, {}, <<>>)

validateTools(tools_) ==
    IF Len(tools_) = 0
    THEN <<Error(Undefined, "tools", MsgToolsRequired)>>
    ELSE ValidateLoop(tools_, 1, {}, <<>>)

(***************************************************************************)
(* generateServerCode: the name of the function generated for each tool,   *)
(* in tool order.                                                          *)
(***************************************************************************)
funcName(name) == toLowerCase(replaceAll(replaceAll(name, " ", "_"), "-", "_"))

generateServerCode(tools_) == [i \in 1..Len(tools_) |-> [funcName |-> funcName(tools_[i].name)]]

(***************************************************************************)
(* CodePreview: the full generateServerCode and the mcp.json manifest.     *)
(*                                                                         *)
(* The generated text is kept as its parts: the preamble, one function     *)
(* source per tool (decorator, name, parameter declarations, docstring,    *)
(* body) and the trailer.  A string of the input is a sequence of tokens;  *)
(* [] stands for the empty string and Undefined for an absent value.       *)
(***************************************************************************)
DefaultServerName == <<"My MCP Server">>

\* Property names every object literal inherits from Object.prototype.
ObjectPrototypeKeys == {<<"constructor">>}

\* String(Object.prototype.constructor), as a template literal prints it.
NativeObjectFunction == <<"function Object() { [native code] }">>

\* TYPE_MAP[key]: an own property, an inherited one, or undefined.
TYPE_MAP(key) ==
    CASE key = <<"string">> -> <<"str">>
      [] key = <<"number">> -> <<"float">>
      [] key = <<"integer">> -> <<"int">>
      [] key = <<"boolean">> -> <<"bool">>
      [] key = <<"array">> -> <<"list">>
      [] key = <<"object">> -> <<"dict">>
      [] key \in ObjectPrototypeKeys -> NativeObjectFunction
      [] OTHER -> Undefined

\* a || b on optional strings
OrElse(a, b) == IF Truthy(a) THEN a ELSE b

\* const paramType = TYPE_MAP[paramDef.type || 'string'] || 'str'
ParamType(paramDef) == OrElse(TYPE_MAP(OrElse(paramDef.type, <<"string">>)), <<"str">>)

\* let defaultVal = '""'; if (paramType === 'int') ...
DefaultVal(paramType) ==
    CASE paramType = <<"int">> -> <<"0">>
      [] paramType = <<"float">> -> <<"0.0">>
      [] paramType = <<"bool">> -> <<"False">>
      [] paramType = <<"list">> -> <<"[]">>
      [] paramType = <<"dict">> -> <<"{}">>
      [] OTHER -> <<"\"\"">>

\* An absent input_schema (undefined); a schema is a record of its properties,
\* as the list of entries in insertion order, and the set of required names.
UndefinedSchema == [undefined |-> TRUE]

\* (tool.input_schema || {}).properties || {}
PropertiesOf(inputSchema) ==
    IF inputSchema = UndefinedSchema THEN <<>> ELSE inputSchema.properties

\* (tool.input_schema || {}).required || []
RequiredOf(inputSchema) ==
    IF inputSchema = UndefinedSchema THEN {} ELSE inputSchema.required

\* One pushed parameter declaration: "name: type" or "name: type = default".
ParamDecl(entry, required) ==
    [name |-> entry.name,
     type |-> ParamType(entry.def),
     default |-> IF entry.name \in required THEN Undefined
                 ELSE DefaultVal(ParamType(entry.def))]

\* params, in the order of Object.entries(properties)
Params(inputSchema) ==
    [k \in 1..Len(PropertiesOf(inputSchema)) |->
        ParamDecl(PropertiesOf(inputSchema)[k], RequiredOf(inputSchema))]

HasParamDescAlways(entry) == entry.def.description # <<>>

HasParamDesc(entry) == Truthy(entry.def.description)
ParamDoc(entry) == [name |-> entry.name, desc |-> entry.def.description]

\* paramDocs: one line per parameter with a description
ParamDocs(inputSchema) ==
    LET described == SelectSeq(PropertiesOf(inputSchema), HasParamDesc)
    IN [k \in 1..Len(described) |-> ParamDoc(described[k])]

\* The function body.  A Python string literal is kept with its prefix.
HandlerType(tool) == IF tool.handler_type = "" THEN "static" ELSE tool.handler_type

Body(tool) ==
    IF HandlerType(tool) = "api" /\ Truthy(tool.handler_code)
    THEN [kind |-> "requests.get",
          literal |-> [prefix |-> <<>>, text |-> tool.handler_code]]
    ELSE [kind |-> "return",
          literal |-> [prefix |-> <<>>, text |-> <<"Executed ">> \o tool.name]]

\* The text appended to code for one tool.
FunctionSource(tool) ==
    [decorator |-> "@mcp.tool()",
     funcName |-> funcName(tool.name),
     params |-> Params(tool.input_schema),
     docstring |-> [description |-> OrElse(tool.description, <<"No description">>),
                    args |-> ParamDocs(tool.input_schema)],
     body |-> Body(tool)]

Preamble(serverName) ==
    [kind |-> "preamble",
     serverName |-> IF serverName = Undefined THEN DefaultServerName ELSE serverName]

Trailer == [kind |-> "trailer"]

\* The for loop over the tools, from tool i on, appending to code.
RECURSIVE GenerateLoop(_, _, _)
GenerateLoop(tools_, i, code) ==
    IF i > Len(tools_) THEN code
    ELSE GenerateLoop(tools_, i + 1, Append(code, FunctionSource(tools_[i])))

generateServerCodeTextSkipFirst(tools_, serverName) ==
    Append(GenerateLoop(tools_, 2, <<Preamble(serverName)>>), Trailer)

generateServerCodeText(tools_, serverName) ==
    Append(GenerateLoop(tools_, 1, <<Preamble(serverName)>>), Trailer)

\* JSON.stringify of { name, description, input_schema }: a property whose
\* value is undefined is left out.
ManifestToolNormalized(t) ==
    LET keys == {"name"}
                 \cup (IF t.description # Undefined THEN {"description"} ELSE {})
                 \cup (IF t.input_schema # UndefinedSchema THEN {"input_schema"} ELSE {})
    IN [k \in keys |-> CASE k = "name" -> funcName(t.name)
                          [] k = "description" -> t.description
                          [] k = "input_schema" -> t.input_schema]

ManifestTool(t) ==
    LET keys == {"name"}
                 \cup (IF t.description # Undefined THEN {"description"} ELSE {})
                 \cup (IF t.input_schema # UndefinedSchema THEN {"input_schema"} ELSE {})
    IN [k \in keys |-> CASE k = "name" -> t.name
                          [] k = "description" -> t.description
                          [] k = "input_schema" -> t.input_schema]

configJson(tools_, serverName) ==
    [name |-> OrElse(serverName, DefaultServerName),
     version |-> <<"1.0.0">>,
     tools |-> [i \in 1..Len(tools_) |-> ManifestTool(tools_[i])]]

\* What one render of CodePreview computes from its props (no remoteCode).
CodePreview(tools_, serverName) ==
    [mounted |-> TRUE,
     tools |-> tools_,
     serverName |-> serverName,
     serverCode |-> generateServerCodeText(tools_, serverName),
     configJson |-> configJson(tools_, serverName)]

NotMounted ==
    [mounted |-> FALSE, tools |-> <<>>, serverName |-> Undefined,
     serverCode |-> <<>>, configJson |-> <<>>]

\* The backend before any request.
NoRequest == [op |-> "none"]

(***************************************************************************)
(* Inputs of the generator.  FunctionTools: one tool with every shape of   *)
(* schema, description and handler.  ServerToolSets: lists of tools of a   *)
(* few shapes, with every shape of server name.                            *)
(***************************************************************************)
ParamNames == {<<"p">>, <<"q">>}
DeclaredTypes ==
    {Undefined, <<"string">>, <<"number">>, <<"integer">>, <<"boolean">>,
     <<"array">>, <<"object">>, <<"text">>} \cup ObjectPrototypeKeys
ParamDefs == [type : DeclaredTypes, description : {Undefined, <<"d">>}]
Entries == [name : ParamNames, def : ParamDefs]

\* The entries of an object have pairwise different keys.
PropertyLists ==
    {<<>>} \cup {<<e>> : e \in Entries}
           \cup {<<ef[1], ef[2]>> : ef \in {x \in Entries \X Entries : x[1].name # x[2].name}}

InputSchemas ==
    {UndefinedSchema} \cup [properties : PropertyLists, required : SUBSET ParamNames]

FunctionTools ==
    [name : {<<"A", "-">>},
     description : {Undefined, <<>>, <<"d">>},
     input_schema : InputSchemas,
     handler_type : {"static", "api", ""},
     handler_code : {Undefined, <<>>, <<"u">>, <<"u", "{", "p", "}">>}]

OneParamSchema ==
    [properties |-> <<[name |-> <<"p">>, def |-> [type |-> <<"string">>, description |-> Undefined]]>>,
     required |-> {<<"p">>}]

ServerTools ==
    [name : {<<"a">>, <<"A", "-">>},
     description : {Undefined, <<"d">>},
     input_schema : {UndefinedSchema, OneParamSchema},
     handler_type : {"static"},
     handler_code : {<<>>}]
    \cup
    [name : {<<"a">>, <<"A", "-">>},
     description : {Undefined, <<"d">>},
     input_schema : {UndefinedSchema, OneParamSchema},
     handler_type : {"api"},
     handler_code : {<<"u">>}]

ServerToolSets == UNION {[1..k -> ServerTools] : k \in 0..MaxTools}
ServerNames == {Undefined, <<>>, <<"S">>}

(***************************************************************************)
(* ProjectBuilder: the page state and its handlers.  Every handler ends    *)
(* with the re-render that its setTools causes: the validation panel shows *)
(* validateTools(tools), the preview shows generateServerCode(tools) and   *)
(* the Export Server button is enabled when there is at least one tool.    *)
(***************************************************************************)
VARIABLES page, tools, clientErrors, serverCode, exportEnabled

\* The CodePreview component and the backend, which the builder page's
\* handlers leave alone.
VARIABLES preview, backend

\* A running call of validateTools, the ToolEditor with the page state it
\* works on, the useWebSocket hook and the ValidationErrors panel with its
\* server validation.
VARIABLES call, editor, socket, panel

\* The SchemaBuilder component.
VARIABLES schemaBuilder

builderVars == <<page, tools, clientErrors, serverCode, exportEnabled>>

componentVars == <<call, editor, socket, panel, schemaBuilder>>

vars == <<page, tools, clientErrors, serverCode, exportEnabled, preview, backend,
          call, editor, socket, panel, schemaBuilder>>

\* The components before they are mounted, and no call running.
NoCall == [pc |-> "none"]
NoEditor == [mounted |-> FALSE]
NoSocket == [mounted |-> FALSE]
NoPanel == [mounted |-> FALSE]
NoSchemaBuilder == [mounted |-> FALSE]

NoCode == [generated |-> FALSE, functions |-> <<>>]

\* What the builder page shows for the tools ts.
Render(ts) ==
    /\ clientErrors' = validateTools(ts)
    /\ serverCode' = [generated |-> TRUE, functions |-> generateServerCode(ts)]
    /\ exportEnabled' = (Len(ts) # 0)

Init ==
    /\ page = "loading"
    /\ tools = <<>>
    /\ clientErrors = <<>>
    /\ serverCode = NoCode
    /\ exportEnabled = FALSE
    /\ preview = NotMounted
    /\ backend = NoRequest
    /\ call = NoCall
    /\ editor = NoEditor
    /\ socket = NoSocket
    /\ panel = NoPanel
    /\ schemaBuilder = NoSchemaBuilder

\* loadData, both requests succeed: the tools are those the backend stores.
loadData ==
    /\ page = "loading"
    /\ \E ts \in ToolSets :
           /\ page' = "builder"
           /\ tools' = ts
           /\ Render(ts)
    /\ UNCHANGED <<preview, backend, componentVars>>

\* loadData, a request fails: project stays null and nothing is shown.
loadDataFailed ==
    /\ page = "loading"
    /\ page' = "notfound"
    /\ UNCHANGED <<tools, clientErrors, serverCode, exportEnabled, preview, backend, componentVars>>

\* handleAddTool: the new tool has an empty handler_code; the tools are reloaded.
handleAddTool(toolName, handlerType) ==
    /\ page = "builder"
    /\ Truthy(trim(toolName))
    /\ Len(tools) < MaxTools
    /\ tools' = Append(tools, [name |-> toolName, handler_type |-> handlerType,
                               handler_code |-> <<>>])
    /\ Render(tools')
    /\ UNCHANGED <<page, preview, backend, componentVars>>

\* handleDeleteTool of the i-th tool
handleDeleteTool(i) ==
    /\ page = "builder"
    /\ i \in 1..Len(tools)
    /\ tools' = SubSeq(tools, 1, i - 1) \o SubSeq(tools, i + 1, Len(tools))
    /\ Render(tools')
    /\ UNCHANGED <<page, preview, backend, componentVars>>

\* handleUpdateTool with the tool the ToolEditor builds from the i-th tool:
\* handler_code is the editor's text, which starts as tool.handler_code || ''
\* and can be edited when the tool is an api tool.
handleUpdateTool(i, handlerCode) ==
    /\ page = "builder"
    /\ i \in 1..Len(tools)
    /\ handlerCode # Undefined
    /\ tools[i].handler_type # "api" =>
           handlerCode = (IF Truthy(tools[i].handler_code) THEN tools[i].handler_code ELSE <<>>)
    /\ tools' = [tools EXCEPT ![i].handler_code = handlerCode]
    /\ Render(tools')
    /\ UNCHANGED <<page, preview, backend, componentVars>>

Next ==
    \/ loadData
    \/ loadDataFailed
    \/ \E n \in Strings(MaxNameLen), t \in HandlerTypes : handleAddTool(n, t)
    \/ \E i \in 1..MaxTools : handleDeleteTool(i)
    \/ \E i \in 1..MaxTools, c \in HandlerCodes : handleUpdateTool(i, c)

Spec == Init /\ [][Next]_vars

(***************************************************************************)
(* CodePreview rendered with given props: the component computes the       *)
(* server code and the manifest from tools and serverName.                 *)
(***************************************************************************)
RenderCodePreview(toolSets, serverNames) ==
    /\ preview = NotMounted
    /\ \E ts \in toolSets, sn \in serverNames : preview' = CodePreview(ts, sn)
    /\ UNCHANGED <<builderVars, backend, componentVars>>

\* The function generator: the preview of one tool.
renderFunctionPreview == RenderCodePreview({<<t>> : t \in FunctionTools}, {<<"S">>})

NextFunction == renderFunctionPreview

SpecFunction == Init /\ [][NextFunction]_vars

\* The server and manifest generators: the preview of a list of tools.
renderServerPreview == RenderCodePreview(ServerToolSets, ServerNames)

NextServer == renderServerPreview

SpecServer == Init /\ [][NextServer]_vars

(***************************************************************************)
(* The backend: tools are persisted with input_schema as JSON text.        *)
(* A text is a sequence of tokens: "1" is a scalar, "p" stands for the     *)
(* member "properties": {"p": {}} of an object.                            *)
(***************************************************************************)
MaxJsonLen == 3
JsonTokens == {"{", "}", "[", "]", "p", "1"}
JsonTexts == UNION {[1..k -> JsonTokens] : k \in 0..MaxJsonLen}

ParseError == [ok |-> FALSE, value |-> [kind |-> "none"], rest |-> <<>>]
EmptyDict == [kind |-> "dict", properties |-> {}]

\* json.loads: one value, then the end of the text.
RECURSIVE ParseValue(_)
ParseValue(text) ==
    IF text = <<>> THEN ParseError
    ELSE CASE text[1] = "1" ->
                [ok |-> TRUE, value |-> [kind |-> "int"], rest |-> Tail(text)]
           [] text[1] = "{" ->
                IF Len(text) >= 2 /\ text[2] = "}"
                THEN [ok |-> TRUE, value |-> EmptyDict, rest |-> SubSeq(text, 3, Len(text))]
                ELSE IF Len(text) >= 3 /\ text[2] = "p" /\ text[3] = "}"
                THEN [ok |-> TRUE, value |-> [kind |-> "dict", properties |-> {<<"p">>}],
                      rest |-> SubSeq(text, 4, Len(text))]
                ELSE ParseError
           [] text[1] = "[" ->
                IF Len(text) >= 2 /\ text[2] = "]"
                THEN [ok |-> TRUE, value |-> [kind |-> "list", items |-> <<>>],
                      rest |-> SubSeq(text, 3, Len(text))]
                ELSE LET inner == ParseValue(Tail(text))
                     IN IF inner.ok /\ inner.rest # <<>> /\ Head(inner.rest) = "]"
                        THEN [ok |-> TRUE,
                              value |-> [kind |-> "list", items |-> <<inner.value>>],
                              rest |-> Tail(inner.rest)]
                        ELSE ParseError
           [] OTHER -> ParseError

json_loads(text) ==
    LET r == ParseValue(text)
    IN IF r.ok /\ r.rest = <<>> THEN [ok |-> TRUE, value |-> r.value]
       ELSE [ok |-> FALSE, value |-> ParseError.value]

\* The rows of the tools table of one project.
StoredHandlers ==
    {[handler_type |-> "static", handler_code |-> <<>>],
     [handler_type |-> "api", handler_code |-> <<>>],
     [handler_type |-> "api", handler_code |-> <<"u">>],
     [handler_type |-> "api", handler_code |-> <<"https://", "u">>]}
StoredRow(name, handler, text) ==
    [name |-> name, handler_type |-> handler.handler_type,
     handler_code |-> handler.handler_code, input_schema |-> text]
StoredRows ==
    {StoredRow(n, h, x) : n \in {<<"a">>, <<"-">>}, h \in StoredHandlers, x \in JsonTexts}
SecondRows ==
    {StoredRow(<<"a">>, [handler_type |-> "static", handler_code |-> <<>>], x) :
        x \in {<<>>, <<"{", "p", "}">>, <<"{">>}}
StoredProjects ==
    {<<r>> : r \in StoredRows} \cup {<<rs[1], rs[2]>> : rs \in StoredRows \X SecondRows}

\* read_tools and serialize_tool: the stored text becomes the input_schema
\* of the response.
Deserialize(text) ==
    IF text # <<>>
    THEN IF json_loads(text).ok THEN json_loads(text).value ELSE EmptyDict
    ELSE EmptyDict

SerializeTool(t) ==
    [name |-> t.name, handler_type |-> t.handler_type,
     handler_code |-> t.handler_code, input_schema |-> Deserialize(t.input_schema)]

read_tools ==
    /\ backend = NoRequest
    /\ \E rows \in StoredProjects :
           backend' = [op |-> "read_tools", rows |-> rows,
                       tools |-> [i \in 1..Len(rows) |-> SerializeTool(rows[i])],
                       errors |-> {}, warnings |-> {}]
    /\ UNCHANGED <<builderVars, preview, componentVars>>

\* validate_project: errors and warnings are lists of messages, each
\* message kept with the tool it names.
AlnumChars == LowerLetters \cup UpperLetters \cup Digits
isalnum(str) == Len(str) > 0 /\ \A k \in 1..Len(str) : str[k] \in AlnumChars
RemoveUnderscores(str) == SelectSeq(str, LAMBDA c : c # "_")
startswithHttp(str) == Len(str) > 0 /\ str[1] \in {"http://", "https://"}

DuplicateNames(rows) ==
    {rows[i].name : i \in {j \in 1..Len(rows) :
                              \E k \in 1..Len(rows) : k # j /\ rows[k].name = rows[j].name}}

DuplicateNameErrors(rows) ==
    IF DuplicateNames(rows) # {}
    THEN {[tool |-> Undefined, message |-> "Duplicate tool names",
           names |-> DuplicateNames(rows)]}
    ELSE {}

NameErrors(tool) ==
    IF ~isalnum(RemoveUnderscores(tool.name))
    THEN {[tool |-> tool.name, message |-> "Invalid Python function name"]}
    ELSE {}

EndpointErrors(tool) ==
    IF tool.handler_type = "api" /\ ~Truthy(tool.handler_code)
    THEN {[tool |-> tool.name, message |-> "Missing API endpoint"]}
    ELSE {}

EndpointWarnings(tool) ==
    IF tool.handler_type = "api" /\ Truthy(tool.handler_code)
           /\ ~startswithHttp(tool.handler_code)
    THEN {[tool |-> tool.name,
           message |-> "API endpoint should start with http:// or https://"]}
    ELSE {}

SchemaErrors(tool) ==
    IF tool.input_schema # <<>>
    THEN IF json_loads(tool.input_schema).ok
         THEN IF json_loads(tool.input_schema).value.kind # "dict"
              THEN {[tool |-> tool.name, message |-> "Invalid schema format"]}
              ELSE {}
         ELSE {[tool |-> tool.name, message |-> "Invalid JSON in schema"]}
    ELSE {}

\* The response of validate_project for the stored rows.
ValidateProjectResponse(rows) ==
    LET errors == DuplicateNameErrors(rows)
                    \cup UNION {NameErrors(rows[i]) \cup EndpointErrors(rows[i])
                                  \cup SchemaErrors(rows[i]) : i \in 1..Len(rows)}
        warnings == UNION {EndpointWarnings(rows[i]) : i \in 1..Len(rows)}
    IN [valid |-> (errors = {}), errors |-> errors, warnings |-> warnings]

validate_project ==
    /\ backend = NoRequest
    /\ \E rows \in StoredProjects :
           LET response == ValidateProjectResponse(rows)
           IN backend' = [op |-> "validate_project", rows |-> rows, tools |-> <<>>,
                          valid |-> response.valid,
                          errors |-> response.errors, warnings |-> response.warnings]
    /\ UNCHANGED <<builderVars, preview, componentVars>>

NextBackend == read_tools \/ validate_project

SpecBackend == Init /\ [][NextBackend]_vars

(***************************************************************************)
(* One call of validateTools, statement by statement.  call.tools is the   *)
(* array the caller passed (the function works on the caller's object),    *)
(* call.before is what that array held when the call began.                *)
(***************************************************************************)
ValidateInputTools ==
    [name : Strings(1), handler_type : HandlerTypes, handler_code : {<<>>, <<".">>}]
ValidateInputs == UNION {[1..k -> ValidateInputTools] : k \in 0..MaxTools}

\* const errors = []; the check for empty tools; const toolNames = new Set()
validateToolsEnter ==
    /\ call = NoCall
    /\ \E ts \in ValidateInputs :
           call' = IF Len(ts) = 0
                   THEN [pc |-> "returned", tools |-> ts, before |-> ts, i |-> 1,
                         toolNames |-> {},
                         errors |-> <<Error(Undefined, "tools", MsgToolsRequired)>>]
                   ELSE [pc |-> "loop", tools |-> ts, before |-> ts, i |-> 1,
                         toolNames |-> {}, errors |-> <<>>]
    /\ UNCHANGED <<builderVars, preview, backend, editor, socket, panel, schemaBuilder>>

\* One pass of the body of the for loop.
validateToolsIterationInPlace ==
    /\ call.pc = "loop"
    /\ call.i <= Len(call.tools)
    /\ call' = [call EXCEPT
                   !.errors = call.errors \o ToolErrors(call.tools[call.i], call.toolNames),
                   !.toolNames = call.toolNames \cup {toLowerCase(call.tools[call.i].name)},
                   !.tools[call.i].name = toLowerCase(call.tools[call.i].name),
                   !.i = call.i + 1]
    /\ UNCHANGED <<builderVars, preview, backend, editor, socket, panel, schemaBuilder>>

validateToolsIteration ==
    /\ call.pc = "loop"
    /\ call.i <= Len(call.tools)
    /\ call' = [call EXCEPT
                   !.errors = call.errors \o ToolErrors(call.tools[call.i], call.toolNames),
                   !.toolNames = call.toolNames \cup {toLowerCase(call.tools[call.i].name)},
                   !.i = call.i + 1]
    /\ UNCHANGED <<builderVars, preview, backend, editor, socket, panel, schemaBuilder>>

\* return errors
validateToolsReturn ==
    /\ call.pc = "loop"
    /\ call.i > Len(call.tools)
    /\ call' = [call EXCEPT !.pc = "returned"]
    /\ UNCHANGED <<builderVars, preview, backend, editor, socket, panel, schemaBuilder>>

NextValidate == validateToolsEnter \/ validateToolsIteration \/ validateToolsReturn

SpecValidate == Init /\ [][NextValidate]_vars

(***************************************************************************)
(* The ToolEditor of the selected tool, with the page state it works on:   *)
(* the tools list, selectedToolId, the toast and the update requests that  *)
(* handleUpdateTool has sent and that are not answered yet.  Of a tool     *)
(* only id and handler_code are kept.  from records which handler of the   *)
(* ToolEditor called onUpdate.                                             *)
(***************************************************************************)
MaxInflight == 2
ToolIds == {1, 2}
StoredCodes == {Undefined, <<>>, <<"u">>}
TypedCodes == {<<>>, <<"u">>}
EditorTool(id, code) == [id |-> id, handler_code |-> code]

\* tools.find(t => t.id === selectedToolId)
FindTool(ts, id) == ts[CHOOSE i \in 1..Len(ts) : ts[i].id = id]
HasTool(ts, id) == \E i \in 1..Len(ts) : ts[i].id = id

\* tool.handler_code || ''
LocalCode(tool) == IF Truthy(tool.handler_code) THEN tool.handler_code ELSE <<>>

\* setTimeout(..., 500) of the auto-update effect: the callback keeps the
\* tool and the handlerCode of the render that set it.
Timer(tool, code) == [pending |-> TRUE, tool |-> tool, handlerCode |-> code]
NoTimer == [pending |-> FALSE]

\* The page is shown with two tools, the first one selected.
mountToolEditor ==
    /\ editor = NoEditor
    /\ \E c1 \in StoredCodes, c2 \in StoredCodes :
           LET ts == <<EditorTool(1, c1), EditorTool(2, c2)>>
           IN editor' = [mounted |-> TRUE, tools |-> ts, selectedToolId |-> 1,
                         handlerCode |-> LocalCode(ts[1]),
                         timer |-> Timer(ts[1], LocalCode(ts[1])),
                         inflight |-> {}, toast |-> "", requested |-> {}]
    /\ UNCHANGED <<builderVars, preview, backend, call, socket, panel, schemaBuilder>>

\* setSelectedToolId(tool.id): the [tool.id] effect resets the local state;
\* the auto-update effect runs again only if handlerCode changed.
selectTool(id) ==
    /\ editor.mounted
    /\ id # editor.selectedToolId
    /\ HasTool(editor.tools, id)
    /\ LET tool == FindTool(editor.tools, id)
       IN editor' = [editor EXCEPT
                        !.selectedToolId = id,
                        !.handlerCode = LocalCode(tool),
                        !.timer = IF LocalCode(tool) # editor.handlerCode
                                  THEN Timer(tool, LocalCode(tool))
                                  ELSE editor.timer]
    /\ UNCHANGED <<builderVars, preview, backend, call, socket, panel, schemaBuilder>>

\* The user types in the endpoint field: setHandlerCode; the effect clears
\* the old timer and sets a new one.
editHandlerCode(code) ==
    /\ editor.mounted
    /\ code # editor.handlerCode
    /\ editor' = [editor EXCEPT
                     !.handlerCode = code,
                     !.timer = Timer(FindTool(editor.tools, editor.selectedToolId), code)]
    /\ UNCHANGED <<builderVars, preview, backend, call, socket, panel, schemaBuilder>>

\* handleUpdateTool up to its await: updateTool sends the PUT request.
SendUpdate(ed, updatedTool, from) ==
    [ed EXCEPT !.inflight = ed.inflight \cup {[tool |-> updatedTool, from |-> from]},
               !.requested = ed.requested \cup {from}]

\* The timer of the auto-update effect fires after 500 ms.
debounceFires ==
    /\ editor.mounted
    /\ editor.timer.pending
    /\ Cardinality(editor.inflight) < MaxInflight
    /\ LET tool == editor.timer.tool
           updatedTool == [tool EXCEPT !.handler_code = editor.timer.handlerCode]
           hasChanges == editor.timer.handlerCode # tool.handler_code
       IN editor' = IF hasChanges
                    THEN [SendUpdate(editor, updatedTool, "auto-update") EXCEPT !.timer = NoTimer]
                    ELSE [editor EXCEPT !.timer = NoTimer]
    /\ UNCHANGED <<builderVars, preview, backend, call, socket, panel, schemaBuilder>>

\* The Save button.
handleSave ==
    /\ editor.mounted
    /\ Cardinality(editor.inflight) < MaxInflight
    /\ LET tool == FindTool(editor.tools, editor.selectedToolId)
           updatedTool == [tool EXCEPT !.handler_code = editor.handlerCode]
       IN editor' = SendUpdate(editor, updatedTool, "save")
    /\ UNCHANGED <<builderVars, preview, backend, call, socket, panel, schemaBuilder>>

\* handleUpdateTool after its await, the request answered with success.
ReplaceAllTools(ts, updatedTool) == [i \in 1..Len(ts) |-> updatedTool]

ReplaceTool(ts, updatedTool) ==
    [i \in 1..Len(ts) |-> IF ts[i].id = updatedTool.id THEN updatedTool ELSE ts[i]]

updateToolSucceeds ==
    /\ editor.mounted
    /\ \E r \in editor.inflight :
           editor' = [editor EXCEPT !.inflight = editor.inflight \ {r},
                                    !.tools = ReplaceTool(editor.tools, r.tool),
                                    !.toast = "Tool saved"]
    /\ UNCHANGED <<builderVars, preview, backend, call, socket, panel, schemaBuilder>>

\* handleUpdateTool after its await, updateTool threw.
updateToolFails ==
    /\ editor.mounted
    /\ \E r \in editor.inflight :
           editor' = [editor EXCEPT !.inflight = editor.inflight \ {r},
                                    !.toast = "Failed to save tool"]
    /\ UNCHANGED <<builderVars, preview, backend, call, socket, panel, schemaBuilder>>

NextEditor ==
    \/ mountToolEditor
    \/ \E id \in ToolIds : selectTool(id)
    \/ \E code \in TypedCodes : editHandlerCode(code)
    \/ debounceFires
    \/ handleSave
    \/ updateToolSucceeds
    \/ updateToolFails

SpecEditor == Init /\ [][NextEditor]_vars

(***************************************************************************)
(* TOOL_TEMPLATES and handleSelectTemplate.  Of a template the name, the   *)
(* handler_type and the handler_code are kept; a handler_code that is not  *)
(* empty is one token.                                                     *)
(***************************************************************************)
Template(name, handlerType, handlerCode) ==
    [name |-> name, handler_type |-> handlerType, handler_code |-> handlerCode]

TOOL_TEMPLATES ==
    <<Template(<<"w", "e", "b", "_", "s", "e", "a", "r", "c", "h">>,
             "api", <<"https://api.duckduckgo.com/?q={query}&format=json">>),
      Template(<<"f", "e", "t", "c", "h", "_", "u", "r", "l">>,
             "api", <<>>),
      Template(<<"g", "e", "t", "_", "w", "e", "a", "t", "h", "e", "r">>,
             "api", <<"https://api.openweathermap.org/data/2.5/weather">>),
      Template(<<"r", "e", "a", "d", "_", "f", "i", "l", "e">>,
             "static", Undefined),
      Template(<<"w", "r", "i", "t", "e", "_", "f", "i", "l", "e">>,
             "static", Undefined),
      Template(<<"l", "i", "s", "t", "_", "f", "i", "l", "e", "s">>,
             "static", Undefined),
      Template(<<"c", "a", "l", "c", "u", "l", "a", "t", "e">>,
             "static", Undefined),
      Template(<<"c", "o", "n", "v", "e", "r", "t", "_", "u", "n", "i", "t", "s">>,
             "static", Undefined),
      Template(<<"q", "u", "e", "r", "y", "_", "d", "a", "t", "a", "b", "a", "s", "e">>,
             "static", Undefined),
      Template(<<"s", "e", "n", "d", "_", "e", "m", "a", "i", "l">>,
             "api", <<>>),
      Template(<<"s", "e", "n", "d", "_", "n", "o", "t", "i", "f", "i", "c", "a", "t", "i", "o", "n">>,
             "api", <<>>),
      Template(<<"g", "e", "n", "e", "r", "a", "t", "e", "_", "u", "u", "i", "d">>,
             "static", Undefined),
      Template(<<"g", "e", "t", "_", "t", "i", "m", "e", "s", "t", "a", "m", "p">>,
             "static", Undefined)>>

\* createTool(projectId, {..., handler_code: template.handler_code || ""})
TemplateTool(template) ==
    [name |-> template.name, handler_type |-> template.handler_type,
     handler_code |-> OrElse(template.handler_code, <<>>)]

\* loadData of a project that has no tool yet.
loadNewProject ==
    /\ page = "loading"
    /\ page' = "builder"
    /\ tools' = <<>>
    /\ Render(tools')
    /\ UNCHANGED <<preview, backend, componentVars>>

\* handleSelectTemplate: the tool is created and the tools are reloaded.
handleSelectTemplate(template) ==
    /\ page = "builder"
    /\ Len(tools) < MaxTools
    /\ tools' = Append(tools, TemplateTool(template))
    /\ Render(tools')
    /\ UNCHANGED <<page, preview, backend, componentVars>>

NextTemplates ==
    \/ loadNewProject
    \/ \E k \in 1..Len(TOOL_TEMPLATES) : handleSelectTemplate(TOOL_TEMPLATES[k])

SpecTemplates == Init /\ [][NextTemplates]_vars

(***************************************************************************)
(* SchemaBuilder: the list of properties the user edits and the schema     *)
(* handed to onChange.  A JavaScript object is the list of its entries in  *)
(* the order Object.entries gives them: the keys that are array indices    *)
(* first, in ascending order, then the other keys in insertion order.  Of  *)
(* a property the random id and enumValues are not kept.                   *)
(***************************************************************************)
MaxProps == 2

IsArrayIndex(key) == Len(key) > 0 /\ \A k \in 1..Len(key) : key[k] \in Digits

\* Numeric order of two array indices; the only digit enumerated is 1.
IndexLess(a, b) == Len(a) < Len(b)

HasKey(obj, key) == \E i \in 1..Len(obj) : obj[i].name = key

\* obj[key] = def
ObjectSet(obj, key, def) ==
    IF HasKey(obj, key)
    THEN [i \in 1..Len(obj) |-> IF obj[i].name = key THEN [name |-> key, def |-> def]
                                ELSE obj[i]]
    ELSE IF IsArrayIndex(key)
    THEN LET Smaller(e) == IsArrayIndex(e.name) /\ IndexLess(e.name, key)
             NotSmaller(e) == ~Smaller(e)
         IN SelectSeq(obj, Smaller) \o <<[name |-> key, def |-> def]>>
                \o SelectSeq(obj, NotSmaller)
    ELSE Append(obj, [name |-> key, def |-> def])

PropDef(prop) ==
    [type |-> prop.type,
     description |-> IF Truthy(prop.description) THEN prop.description ELSE Undefined]

EmptyObject == [properties |-> <<>>, required |-> <<>>, hasProperties |-> FALSE]

\* properties.forEach of propertiesToSchema, from property i on.
RECURSIVE ForEachProperty(_, _, _)
ForEachProperty(properties, i, schema) ==
    IF i > Len(properties) THEN schema
    ELSE LET prop == properties[i]
         IN IF ~Truthy(trim(prop.name))
            THEN ForEachProperty(properties, i + 1, schema)
            ELSE ForEachProperty(properties, i + 1,
                     [schema EXCEPT
                         !.properties = ObjectSet(schema.properties, prop.name, PropDef(prop)),
                         !.required = IF prop.required
                                      THEN Append(schema.required, prop.name)
                                      ELSE schema.required])

\* An empty required is deleted, and is read back as schema.required || [].
propertiesToSchema(properties) ==
    IF Len(properties) = 0 THEN EmptyObject
    ELSE ForEachProperty(properties, 1,
             [properties |-> <<>>, required |-> <<>>, hasProperties |-> TRUE])

Includes(list, x) == \E i \in 1..Len(list) : list[i] = x

schemaToProperties(schema) ==
    IF ~schema.hasProperties THEN <<>>
    ELSE [i \in 1..Len(schema.properties) |->
             LET name == schema.properties[i].name
                 prop == schema.properties[i].def
             IN [name |-> name,
                 type |-> IF prop.type = "" THEN "string" ELSE prop.type,
                 description |-> OrElse(prop.description, <<>>),
                 required |-> Includes(schema.required, name)]]

SchemaProperties ==
    [name : {<<"p">>, <<"q">>, <<"1">>, <<" ">>},
     type : {"string", "integer"},
     description : {<<>>, <<"d">>},
     required : BOOLEAN]
SchemaPropertyLists == UNION {[1..k -> SchemaProperties] : k \in 0..MaxProps}

\* updateAndNotify(newProps): the list is kept and the schema handed to
\* onChange.
updateAndNotify ==
    /\ schemaBuilder = NoSchemaBuilder
    /\ \E newProps \in SchemaPropertyLists :
           schemaBuilder' = [mounted |-> TRUE, reopened |-> FALSE,
                             edited |-> newProps,
                             properties |-> newProps,
                             value |-> propertiesToSchema(newProps)]
    /\ UNCHANGED <<builderVars, preview, backend, call, editor, socket, panel>>

\* The editor is shown again for the schema: the mount effect reads the
\* properties back from value.
reopenSchemaBuilder ==
    /\ schemaBuilder.mounted
    /\ ~schemaBuilder.reopened
    /\ schemaBuilder' = [schemaBuilder EXCEPT
                            !.reopened = TRUE,
                            !.properties = schemaToProperties(schemaBuilder.value)]
    /\ UNCHANGED <<builderVars, preview, backend, call, editor, socket, panel>>

NextSchema == updateAndNotify \/ reopenSchemaBuilder

SpecSchema == Init /\ [][NextSchema]_vars

(***************************************************************************)
(* useWebSocket.  effect counts the runs of the effect (one per            *)
(* projectId), alive tells whether the last run has not been cleaned up.   *)
(* current is ws.current and reconnectTimeout is reconnectTimeout.current: *)
(* 0 for null, else the number of a socket; the timer that the onclose     *)
(* handler of socket n sets is known by n.  Each socket keeps the run of   *)
(* the effect whose connect created it (its handlers and the connect they  *)
(* schedule are closures of that run, with that run's projectId).          *)
(***************************************************************************)
MaxEffects == 2
MaxDrops == 2
SocketIds == 1..(2 * MaxEffects + MaxDrops)

NewSocket(run, disposed) ==
    [effect |-> run, readyState |-> "connecting", timer |-> "none",
     made |-> "none", openAtFire |-> FALSE, afterCleanup |-> disposed]

\* connect() of the effect run: nothing when ws.current is open, else a new
\* WebSocket that becomes ws.current.
ConnectIgnoringCurrent(s, run) ==
    IF s.current # 0
    THEN s
    ELSE [s EXCEPT !.sockets = Append(s.sockets,
                                       NewSocket(run, ~(s.alive /\ s.effect = run))),
                   !.current = Len(s.sockets) + 1]

Connect(s, run) ==
    IF s.current # 0 /\ s.sockets[s.current].readyState = "open"
    THEN s
    ELSE [s EXCEPT !.sockets = Append(s.sockets,
                                       NewSocket(run, ~(s.alive /\ s.effect = run))),
                   !.current = Len(s.sockets) + 1]

\* socket.onclose of socket n
OnClose(s, n) ==
    [s EXCEPT !.isConnected = FALSE,
              !.sockets[n].readyState = "closed",
              !.sockets[n].timer = "pending",
              !.reconnectTimeout = n]

\* The cleanup function of the effect.
Cleanup(s) ==
    LET closed == IF s.current # 0
                     /\ s.sockets[s.current].readyState \in {"connecting", "open"}
                  THEN [s EXCEPT !.sockets[s.current].readyState = "closing"]
                  ELSE s
        cleared == IF closed.reconnectTimeout # 0
                      /\ closed.sockets[closed.reconnectTimeout].timer = "pending"
                   THEN [closed EXCEPT !.sockets[closed.reconnectTimeout].timer = "cleared"]
                   ELSE closed
    IN [cleared EXCEPT !.alive = FALSE]

\* The first run of the effect.
mountSocketHook ==
    /\ socket = NoSocket
    /\ socket' = Connect([mounted |-> TRUE, effect |-> 1, alive |-> TRUE, current |-> 0,
                          reconnectTimeout |-> 0, sockets |-> <<>>,
                          isConnected |-> FALSE, drops |-> 0], 1)
    /\ UNCHANGED <<builderVars, preview, backend, call, editor, panel, schemaBuilder>>

\* projectId changes: the cleanup of the last run, then the next run.
changeProjectId ==
    /\ socket.mounted /\ socket.alive
    /\ socket.effect < MaxEffects
    /\ socket' = LET cleaned == Cleanup(socket)
                     next == [cleaned EXCEPT !.effect = socket.effect + 1, !.alive = TRUE]
                 IN Connect(next, socket.effect + 1)
    /\ UNCHANGED <<builderVars, preview, backend, call, editor, panel, schemaBuilder>>

\* The component unmounts: the cleanup of the last run.
unmountSocketHook ==
    /\ socket.mounted /\ socket.alive
    /\ socket' = Cleanup(socket)
    /\ UNCHANGED <<builderVars, preview, backend, call, editor, panel, schemaBuilder>>

\* socket.onopen of socket n
socketOpens(n) ==
    /\ socket.mounted
    /\ n \in 1..Len(socket.sockets)
    /\ socket.sockets[n].readyState = "connecting"
    /\ socket' = [socket EXCEPT !.sockets[n].readyState = "open", !.isConnected = TRUE]
    /\ UNCHANGED <<builderVars, preview, backend, call, editor, panel, schemaBuilder>>

\* socket.onerror of socket n: socket.close()
socketErrors(n) ==
    /\ socket.mounted
    /\ n \in 1..Len(socket.sockets)
    /\ socket.sockets[n].readyState \in {"connecting", "open"}
    /\ socket.drops < MaxDrops
    /\ socket' = [socket EXCEPT !.sockets[n].readyState = "closing",
                                !.drops = socket.drops + 1]
    /\ UNCHANGED <<builderVars, preview, backend, call, editor, panel, schemaBuilder>>

\* The connection of socket n is lost or the server closes it: onclose.
socketDrops(n) ==
    /\ socket.mounted
    /\ n \in 1..Len(socket.sockets)
    /\ socket.sockets[n].readyState \in {"connecting", "open"}
    /\ socket.drops < MaxDrops
    /\ socket' = [OnClose(socket, n) EXCEPT !.drops = socket.drops + 1]
    /\ UNCHANGED <<builderVars, preview, backend, call, editor, panel, schemaBuilder>>

\* The close event of a socket closed by close(): onclose.
socketClosed(n) ==
    /\ socket.mounted
    /\ n \in 1..Len(socket.sockets)
    /\ socket.sockets[n].readyState = "closing"
    /\ socket' = OnClose(socket, n)
    /\ UNCHANGED <<builderVars, preview, backend, call, editor, panel, schemaBuilder>>

\* The timer set by the onclose of socket n fires after 3 seconds: connect.
reconnectTimerFires(n) ==
    /\ socket.mounted
    /\ n \in 1..Len(socket.sockets)
    /\ socket.sockets[n].timer = "pending"
    /\ LET fired == [socket EXCEPT
                        !.sockets[n].timer = "fired",
                        !.sockets[n].openAtFire =
                            (socket.current # 0
                             /\ socket.sockets[socket.current].readyState = "open")]
           after == Connect(fired, socket.sockets[n].effect)
       IN socket' = [after EXCEPT !.sockets[n].made =
                                      IF Len(after.sockets) > Len(socket.sockets)
                                      THEN "connected" ELSE "skipped"]
    /\ UNCHANGED <<builderVars, preview, backend, call, editor, panel, schemaBuilder>>

NextSocket ==
    \/ mountSocketHook
    \/ changeProjectId
    \/ unmountSocketHook
    \/ \E n \in SocketIds : socketOpens(n)
    \/ \E n \in SocketIds : socketErrors(n)
    \/ \E n \in SocketIds : socketDrops(n)
    \/ \E n \in SocketIds : socketClosed(n)
    \/ \E n \in SocketIds : reconnectTimerFires(n)

SpecSocket == Init /\ [][NextSocket]_vars

\* The event loop delivers every close event and runs every timer that is
\* not cleared.
SpecSocketFair ==
    /\ SpecSocket
    /\ \A n \in SocketIds : WF_vars(socketClosed(n))
    /\ \A n \in SocketIds : WF_vars(reconnectTimerFires(n))

(***************************************************************************)
(* ValidationErrors: the panel shows validateTools(tools) and the errors   *)
(* of the last answered validateProject request.  tools is the prop, which *)
(* the page sets after the backend stored the change, so a request is      *)
(* answered for the tools of the moment it is sent.  A request keeps       *)
(* whether it was sent for the tools now shown (latest).                   *)
(***************************************************************************)
MaxChanges == 1
PanelTools ==
    {StoredRow(n, h, <<>>) :
        n \in {<<"a">>, <<"A">>, <<"1">>, <<"-">>},
        h \in {[handler_type |-> "static", handler_code |-> <<>>],
               [handler_type |-> "api", handler_code |-> <<" ">>],
               [handler_type |-> "api", handler_code |-> <<"https://", "u">>]}}
PanelToolSets == UNION {[1..k -> PanelTools] : k \in 0..MaxTools}

\* A render with the tools ts: the effect [projectId, tools] clears the old
\* timer and sets setTimeout(checkServer, 1000).
PanelRender(p, ts) ==
    [p EXCEPT !.tools = ts,
              !.clientErrors = validateTools(ts),
              !.timer = TRUE,
              !.latestAnswered = FALSE,
              !.inflight = {[r EXCEPT !.latest = FALSE] : r \in p.inflight}]

mountValidationErrors ==
    /\ panel = NoPanel
    /\ \E ts \in PanelToolSets :
           panel' = [mounted |-> TRUE, tools |-> ts, clientErrors |-> validateTools(ts),
                     serverErrors |-> {}, isValidating |-> FALSE, timer |-> TRUE,
                     inflight |-> {}, latestAnswered |-> FALSE, changes |-> 0]
    /\ UNCHANGED <<builderVars, preview, backend, call, editor, socket, schemaBuilder>>

\* The page added a tool: setTools(toolsData).
panelToolAdded(tool) ==
    /\ panel.mounted
    /\ panel.changes < MaxChanges
    /\ Len(panel.tools) < MaxTools
    /\ panel' = [PanelRender(panel, Append(panel.tools, tool)) EXCEPT
                    !.changes = panel.changes + 1]
    /\ UNCHANGED <<builderVars, preview, backend, call, editor, socket, schemaBuilder>>

\* The page deleted the i-th tool: setTools(tools.filter(...)).
panelToolDeleted(i) ==
    /\ panel.mounted
    /\ panel.changes < MaxChanges
    /\ i \in 1..Len(panel.tools)
    /\ panel' = [PanelRender(panel, SubSeq(panel.tools, 1, i - 1)
                                        \o SubSeq(panel.tools, i + 1, Len(panel.tools)))
                    EXCEPT !.changes = panel.changes + 1]
    /\ UNCHANGED <<builderVars, preview, backend, call, editor, socket, schemaBuilder>>

\* The debounce timer fires: checkServer up to its await.
checkServer ==
    /\ panel.mounted
    /\ panel.timer
    /\ Cardinality(panel.inflight) < MaxInflight
    /\ panel' = [panel EXCEPT
                    !.timer = FALSE,
                    !.isValidating = TRUE,
                    !.inflight = panel.inflight
                        \cup {[errors |-> ValidateProjectResponse(panel.tools).errors,
                               latest |-> TRUE]}]
    /\ UNCHANGED <<builderVars, preview, backend, call, editor, socket, schemaBuilder>>

\* checkServer after its await: setServerErrors(result.errors)
validateProjectAnswered ==
    /\ panel.mounted
    /\ \E r \in panel.inflight :
           panel' = [panel EXCEPT
                        !.inflight = panel.inflight \ {r},
                        !.serverErrors = r.errors,
                        !.latestAnswered = panel.latestAnswered \/ r.latest,
                        !.isValidating = FALSE]
    /\ UNCHANGED <<builderVars, preview, backend, call, editor, socket, schemaBuilder>>

\* checkServer after its await, validateProject threw.
validateProjectFailed ==
    /\ panel.mounted
    /\ \E r \in panel.inflight :
           panel' = [panel EXCEPT !.inflight = panel.inflight \ {r},
                                  !.isValidating = FALSE]
    /\ UNCHANGED <<builderVars, preview, backend, call, editor, socket, schemaBuilder>>

NextPanel ==
    \/ mountValidationErrors
    \/ \E tool \in PanelTools : panelToolAdded(tool)
    \/ \E i \in 1..MaxTools : panelToolDeleted(i)
    \/ checkServer
    \/ validateProjectAnswered
    \/ validateProjectFailed

SpecPanel == Init /\ [][NextPanel]_vars

TypeOK ==
    /\ page \in {"loading", "notfound", "builder"}
    /\ tools \in ToolSets

(***************************************************************************)
(* Vocabulary of the properties                                            *)
(***************************************************************************)
\* The builder page is shown: the panel and the preview are those of tools.
Rendered == page = "builder"

\* normalize: the form the generator uses for the function name.
normalize(name) == funcName(name)

\* isValidIdentifier: the identifier pattern on the raw declared name.
isValidIdentifier(name) == IdentifierRegex(name)

\* A string that is empty or only whitespace.
Blank(s) == \A k \in 1..Len(s) : s[k] = " "

\* Pairs of tools whose normalized names are equal.
CollidingPairs ==
    {p \in (1..Len(tools)) \X (1..Len(tools)) :
        p[1] < p[2] /\ normalize(tools[p[1]].name) = normalize(tools[p[2]].name)}

IsDuplicateError(e) == e.message = MsgDuplicate
IsIdentifierError(e) == e.message = MsgIdentifier
IsApiError(e) == e.message = MsgApiEndpoint
IsNameRequiredError(e) == e.message = MsgNameRequired
IsUnnamedError(e) == e.tool = Unnamed

DuplicateErrs == SelectSeq(clientErrors, IsDuplicateError)
ApiErrs == SelectSeq(clientErrors, IsApiError)
NameRequiredErrs == SelectSeq(clientErrors, IsNameRequiredError)
UnnamedErrs == SelectSeq(clientErrors, IsUnnamedError)

ApiWithoutEndpoint(t) ==
    t.handler_type = "api" /\ (t.handler_code = Undefined \/ Blank(t.handler_code))
HasEmptyName(t) == t.name = <<>>

ToolsWithoutEndpoint == SelectSeq(tools, ApiWithoutEndpoint)
ToolsWithEmptyName == SelectSeq(tools, HasEmptyName)

\* At least one tool, valid raw names, pairwise distinct normalized names.
WellNamed ==
    /\ Len(tools) >= 1
    /\ \A i \in 1..Len(tools) : isValidIdentifier(tools[i].name)
    /\ CollidingPairs = {}

(***************************************************************************)
(* C1: a tool set with at least one tool, valid identifiers as names and   *)
(* pairwise distinct normalized names validates to the empty list,         *)
(* whatever the other fields of the tools are.                             *)
(***************************************************************************)
C1_AnyFieldsValid == (Rendered /\ WellNamed) => clientErrors = <<>>

\* C1 as amended: ... provided every api tool has a handler_code that is
\* present and not blank.
C1_WellNamedWithEndpointsValid ==
    (Rendered /\ WellNamed /\ Len(ToolsWithoutEndpoint) = 0) => clientErrors = <<>>

C1_Witness ==
    /\ Rendered /\ WellNamed /\ Len(tools) = 2
    /\ tools[1].handler_type = "api" /\ tools[1].handler_code = <<".">>
    /\ tools[2].handler_type = "static" /\ tools[2].handler_code = Undefined
    /\ toLowerCase(tools[1].name) # tools[1].name
    /\ clientErrors = <<>>

(***************************************************************************)
(* C2: when two tools (with names that are not blank) have equal           *)
(* normalized names, the validator returns at least one duplicate-name     *)
(* error.                                                                  *)
(***************************************************************************)
C2_CollisionReported ==
    (Rendered /\ \E p \in CollidingPairs : ~Blank(tools[p[1]].name) /\ ~Blank(tools[p[2]].name))
        => Len(DuplicateErrs) >= 1

(***************************************************************************)
(* C3: when exactly two tools (with names that are not blank) share a      *)
(* normalized name, the validator returns exactly one duplicate-name       *)
(* error, and it carries the original name of one of the two.              *)
(***************************************************************************)
C3_ExactlyOneDuplicateError ==
    \A p \in CollidingPairs :
        (Rendered /\ CollidingPairs = {p}
            /\ ~Blank(tools[p[1]].name) /\ ~Blank(tools[p[2]].name))
        => /\ Len(DuplicateErrs) = 1
           /\ DuplicateErrs[1].tool \in {tools[p[1]].name, tools[p[2]].name}

(***************************************************************************)
(* C4: when the validator returns no errors, the function names the        *)
(* generator derives are pairwise distinct.                                *)
(***************************************************************************)
C4_ValidatedNamesDistinct ==
    (Rendered /\ clientErrors = <<>>) =>
        \A i, j \in 1..Len(serverCode.functions) :
            i # j => serverCode.functions[i].funcName # serverCode.functions[j].funcName

(***************************************************************************)
(* C5: the builder generates program source, or offers the export, only    *)
(* when the validator returns no errors for the current tools.             *)
(***************************************************************************)
C5_GenerationGated ==
    (Rendered /\ (serverCode.generated \/ exportEnabled)) => clientErrors = <<>>

(***************************************************************************)
(* C6: every tool whose raw name (not blank) contains a space or a hyphen  *)
(* gets an invalid-identifier error carrying its name.                     *)
(***************************************************************************)
C6_RawNameDecidesValidity ==
    Rendered =>
        \A i \in 1..Len(tools) :
            (~Blank(tools[i].name) /\ \E k \in 1..Len(tools[i].name) : tools[i].name[k] \in {" ", "-"})
            => \E n \in 1..Len(clientErrors) :
                   /\ IsIdentifierError(clientErrors[n])
                   /\ clientErrors[n].tool = tools[i].name

(***************************************************************************)
(* C7: every tool whose name starts with a digit, or contains a character  *)
(* other than letters, digits, underscore, space and hyphen, gets an       *)
(* invalid-identifier error naming the tool and the field name.            *)
(***************************************************************************)
StartsWithDigit(s) == Len(s) > 0 /\ s[1] \in Digits
HasPunctuation(s) ==
    \E k \in 1..Len(s) :
        s[k] \notin LowerLetters \cup UpperLetters \cup Digits \cup {"_", " ", "-"}

C7_BadNamesRejected ==
    Rendered =>
        \A i \in 1..Len(tools) :
            (StartsWithDigit(tools[i].name) \/ HasPunctuation(tools[i].name))
            => \E n \in 1..Len(clientErrors) :
                   clientErrors[n] = Error(tools[i].name, "name", MsgIdentifier)

C7_Witness ==
    /\ Rendered /\ Len(tools) = 2
    /\ StartsWithDigit(tools[1].name) /\ ~HasPunctuation(tools[1].name)
    /\ HasPunctuation(tools[2].name) /\ ~StartsWithDigit(tools[2].name)
    /\ Len(SelectSeq(clientErrors, IsIdentifierError)) = 2

(***************************************************************************)
(* C8: the api-endpoint errors are, in order, exactly one for every tool   *)
(* that has handler_type api and a missing, empty or blank handler_code;   *)
(* each carries that tool's name and the field handler_code.               *)
(***************************************************************************)
C8_ApiEndpointRequired ==
    Rendered =>
        /\ Len(ApiErrs) = Len(ToolsWithoutEndpoint)
        /\ \A k \in 1..Len(ApiErrs) :
               ApiErrs[k] = Error(ToolsWithoutEndpoint[k].name, "handler_code", MsgApiEndpoint)

C8_Witness ==
    /\ Rendered /\ Len(tools) = 2
    /\ tools[1].handler_type = "static" /\ tools[1].handler_code = <<>>
    /\ tools[2].handler_type = "api" /\ tools[2].handler_code = <<" ">>
    /\ Len(ApiErrs) = 1

(***************************************************************************)
(* C9: every tool with an empty name gets a name-required error on field   *)
(* name attributed to "Unnamed", and no name-required error is attributed  *)
(* to a name that is a valid identifier.                                   *)
(***************************************************************************)
C9_EmptyNameIsUnnamed ==
    Rendered =>
        /\ Len(UnnamedErrs) = Len(ToolsWithEmptyName)
        /\ \A k \in 1..Len(UnnamedErrs) :
               UnnamedErrs[k] = Error(Unnamed, "name", MsgNameRequired)
        /\ \A k \in 1..Len(NameRequiredErrs) :
               /\ ~isValidIdentifier(NameRequiredErrs[k].tool) \/ NameRequiredErrs[k].tool = Unnamed
               /\ NameRequiredErrs[k].tool # <<>>

C9_Witness ==
    /\ Rendered /\ Len(tools) = 2
    /\ tools[1].name = <<>>
    /\ isValidIdentifier(tools[2].name)
    /\ Len(UnnamedErrs) = 1 /\ Len(NameRequiredErrs) = 1

(***************************************************************************)
(* C10: for no tools the validator returns exactly one error, "At least    *)
(* one tool is required" on field tools; for one or more tools it never    *)
(* returns that error.                                                     *)
(***************************************************************************)
C10_EmptyToolSet ==
    Rendered =>
        /\ Len(tools) = 0 => clientErrors = <<Error(Undefined, "tools", MsgToolsRequired)>>
        /\ Len(tools) > 0 =>
               \A n \in 1..Len(clientErrors) :
                   clientErrors[n].message # MsgToolsRequired /\ clientErrors[n].field # "tools"

C10_Witness ==
    /\ Rendered /\ Len(tools) = 0
    /\ Len(clientErrors) = 1

(***************************************************************************)
(* C11: the validator never stops at the first violation: for one or more  *)
(* tools, each kind of error occurs once for every tool that violates the  *)
(* corresponding check, whatever the other checks and the earlier tools    *)
(* produced.                                                               *)
(***************************************************************************)
ViolatesNameRequired(i) == Blank(tools[i].name)
ViolatesDuplicate(i) ==
    /\ tools[i].name # <<>>
    /\ \E j \in 1..(i - 1) : toLowerCase(tools[j].name) = toLowerCase(tools[i].name)
ViolatesIdentifier(i) == StartsWithDigit(tools[i].name) \/ HasPunctuation(tools[i].name)
ViolatesApiEndpoint(i) == ApiWithoutEndpoint(tools[i])

C11_AllViolationsReported ==
    (Rendered /\ Len(tools) > 0) =>
        /\ Len(NameRequiredErrs) = Cardinality({i \in 1..Len(tools) : ViolatesNameRequired(i)})
        /\ Len(DuplicateErrs) = Cardinality({i \in 1..Len(tools) : ViolatesDuplicate(i)})
        /\ Len(SelectSeq(clientErrors, IsIdentifierError))
               = Cardinality({i \in 1..Len(tools) : ViolatesIdentifier(i)})
        /\ Len(ApiErrs) = Cardinality({i \in 1..Len(tools) : ViolatesApiEndpoint(i)})

\* An invalid first tool, and a second tool with an invalid name, a duplicate
\* name and a missing endpoint: four errors, three of them for the second.
C11_Witness ==
    /\ Rendered /\ Len(tools) = 2
    /\ ViolatesIdentifier(1) /\ ~ViolatesApiEndpoint(1)
    /\ ViolatesIdentifier(2) /\ ViolatesDuplicate(2) /\ ViolatesApiEndpoint(2)
    /\ Len(clientErrors) = 4
    /\ \A n \in 2..4 : clientErrors[n].tool = tools[2].name

(***************************************************************************)
(* The generator claims are about the rendered CodePreview.                *)
(***************************************************************************)
Previewed == preview.mounted

ManifestEntryCopies(i) ==
    LET e == preview.configJson.tools[i]
        t == preview.tools[i]
    IN /\ DOMAIN e \subseteq {"name", "description", "input_schema"}
       /\ e.name = t.name
       /\ ("description" \in DOMAIN e) = (t.description # Undefined)
       /\ "description" \in DOMAIN e => e.description = t.description
       /\ ("input_schema" \in DOMAIN e) = (t.input_schema # UndefinedSchema)
       /\ "input_schema" \in DOMAIN e => e.input_schema = t.input_schema

ManifestEntriesInOrder ==
    /\ preview.configJson.version = <<"1.0.0">>
    /\ Len(preview.configJson.tools) = Len(preview.tools)
    /\ \A i \in 1..Len(preview.tools) : ManifestEntryCopies(i)

(***************************************************************************)
(* C13 as stated: the manifest has version "1.0.0", name equal to          *)
(* serverName, and one entry per tool in ToolSet order with the literal    *)
(* name and with description and input_schema copied unchanged.            *)
(***************************************************************************)
C13_ManifestNameIsServerName ==
    Previewed =>
        /\ preview.configJson.name = preview.serverName
        /\ ManifestEntriesInOrder

(***************************************************************************)
(* C13 amended: the manifest has version "1.0.0", name equal to serverName *)
(* or to "My MCP Server" when serverName is empty or absent, and one entry *)
(* per tool in ToolSet order with the literal name and with description    *)
(* and input_schema copied unchanged.                                      *)
(***************************************************************************)
C13_ManifestProjection ==
    Previewed =>
        /\ preview.configJson.name =
               IF preview.serverName \in {Undefined, <<>>}
               THEN <<"My MCP Server">> ELSE preview.serverName
        /\ ManifestEntriesInOrder

\* Two tools, the first with a name that normalization would change and no
\* description, the second with a schema, under an empty server name.
C13_Witness ==
    /\ Previewed /\ Len(preview.tools) = 2
    /\ preview.serverName = <<>>
    /\ funcName(preview.tools[1].name) # preview.tools[1].name
    /\ preview.tools[1].description = Undefined
    /\ preview.tools[2].input_schema = OneParamSchema
    /\ preview.tools[2].name # preview.tools[1].name
    /\ Len(preview.configJson.tools) = 2

(***************************************************************************)
(* The function generated for the only tool of the preview, and the table  *)
(* of the type mapper as the specification gives it.                       *)
(***************************************************************************)
OneToolPreviewed == Previewed /\ Len(preview.tools) = 1
TheTool == preview.tools[1]
TheFunction == preview.serverCode[2]
TheProperties == PropertiesOf(TheTool.input_schema)
TheRequired == RequiredOf(TheTool.input_schema)

TargetType(declared) ==
    CASE declared = <<"number">> -> <<"float">>
      [] declared = <<"integer">> -> <<"int">>
      [] declared = <<"boolean">> -> <<"bool">>
      [] declared = <<"array">> -> <<"list">>
      [] declared = <<"object">> -> <<"dict">>
      [] OTHER -> <<"str">>

DefaultLiteral(declared) ==
    CASE declared = <<"number">> -> <<"0.0">>
      [] declared = <<"integer">> -> <<"0">>
      [] declared = <<"boolean">> -> <<"False">>
      [] declared = <<"array">> -> <<"[]">>
      [] declared = <<"object">> -> <<"{}">>
      [] OTHER -> <<"\"\"">>

(***************************************************************************)
(* C14: the type mapper is a total lookup: every parameter of the          *)
(* generated signature has the target type of the table and, when it is    *)
(* not in required, the default literal of the table; a declared type      *)
(* outside the six kinds, a missing type included, gets the string         *)
(* mapping.                                                                *)
(***************************************************************************)
C14_TypeMapperTotal ==
    OneToolPreviewed =>
        /\ Len(TheFunction.params) = Len(TheProperties)
        /\ \A k \in 1..Len(TheProperties) :
               LET declared == TheProperties[k].def.type
                   param == TheFunction.params[k]
               IN /\ param.name = TheProperties[k].name
                  /\ param.type = TargetType(declared)
                  /\ param.name \notin TheRequired =>
                         param.default = DefaultLiteral(declared)

(***************************************************************************)
(* C15: in the generated signature every parameter listed in required has  *)
(* no default, every other parameter has one, and no parameter without a   *)
(* default follows a parameter with a default, whatever the order of       *)
(* inputSchema.properties.                                                 *)
(***************************************************************************)
C15_NoNonDefaultAfterDefault ==
    OneToolPreviewed =>
        LET params == TheFunction.params
        IN /\ \A k \in 1..Len(params) :
                  (params[k].name \in TheRequired) = (params[k].default = Undefined)
           /\ \A j, k \in 1..Len(params) :
                  j < k /\ params[j].default # Undefined => params[k].default # Undefined

(***************************************************************************)
(* The generated body when the function is called: Python substitutes      *)
(* {name} inside a string literal only when the literal has the f prefix.  *)
(* env gives the call-time value of each parameter.                        *)
(***************************************************************************)
RECURSIVE Substitute(_, _, _)
Substitute(text, names, env) ==
    IF text = <<>> THEN <<>>
    ELSE IF Len(text) >= 3 /\ text[1] = "{" /\ text[3] = "}" /\ <<text[2]>> \in names
         THEN <<env[<<text[2]>>]>> \o Substitute(SubSeq(text, 4, Len(text)), names, env)
         ELSE <<Head(text)>> \o Substitute(Tail(text), names, env)

PyEval(literal, names, env) ==
    IF literal.prefix = <<"f">> THEN Substitute(literal.text, names, env)
    ELSE literal.text

CallValues == {"v", "w"}
Envs == [ParamNames -> CallValues]
ParamNamesOf(function) == {function.params[k].name : k \in 1..Len(function.params)}

(***************************************************************************)
(* C16: the generated body is determined by handlerType: a static tool     *)
(* returns a fixed placeholder string naming the tool; an api tool (with   *)
(* an endpoint) performs a GET request to handlerCode in which every       *)
(* {paramName} placeholder is replaced by the call-time value of the       *)
(* parameter of that name.                                                 *)
(***************************************************************************)
C16_BodyByHandlerType ==
    OneToolPreviewed =>
        LET names == ParamNamesOf(TheFunction)
            body == TheFunction.body
        IN /\ TheTool.handler_type = "static" =>
                  /\ body.kind = "return"
                  /\ \A env \in Envs :
                         PyEval(body.literal, names, env) = <<"Executed ">> \o TheTool.name
           /\ TheTool.handler_type = "api" /\ Truthy(TheTool.handler_code) =>
                  /\ body.kind = "requests.get"
                  /\ \A env \in Envs :
                         PyEval(body.literal, names, env)
                             = Substitute(TheTool.handler_code, names, env)

(***************************************************************************)
(* C17: the function generated for a tool is named by its name with every  *)
(* space and hyphen replaced by an underscore and the result lower-cased,  *)
(* and that same form is the key under which the validator's duplicate     *)
(* check records the tool.                                                 *)
(***************************************************************************)
\* The key the duplicate check looks up and records for a name.
collisionKey(name) == toLowerCase(name)

NormalizedChar(c) == IF c \in {" ", "-"} THEN "_" ELSE IF c \in UpperLetters THEN "a" ELSE c

C17_FunctionNameIsNormalized ==
    Rendered =>
        \A i \in 1..Len(tools) :
            /\ Len(serverCode.functions[i].funcName) = Len(tools[i].name)
            /\ \A k \in 1..Len(tools[i].name) :
                   serverCode.functions[i].funcName[k] = NormalizedChar(tools[i].name[k])

C17_CollisionKeyIsFunctionName ==
    Rendered =>
        \A i \in 1..Len(tools) :
            /\ C17_FunctionNameIsNormalized
            /\ collisionKey(tools[i].name) = serverCode.functions[i].funcName

(***************************************************************************)
(* C18: the preamble of the generated program names the server with        *)
(* serverName, and with "My MCP Server" when serverName is empty or        *)
(* absent, so the program and the manifest carry the same server name.     *)
(***************************************************************************)
C18_ProgramAndManifestSameName ==
    Previewed =>
        /\ preview.serverCode[1].kind = "preamble"
        /\ preview.serverCode[1].serverName =
               IF preview.serverName \in {Undefined, <<>>}
               THEN <<"My MCP Server">> ELSE preview.serverName
        /\ preview.serverCode[1].serverName = preview.configJson.name

(***************************************************************************)
(* C19: the generated program is the preamble, then exactly one registered *)
(* function per tool in ToolSet order, then the entry-point trailer; for   *)
(* the empty ToolSet the preamble is followed directly by the trailer.     *)
(***************************************************************************)
C19_ProgramStructure ==
    Previewed =>
        LET code == preview.serverCode
            n == Len(preview.tools)
        IN /\ Len(code) = n + 2
           /\ code[1].kind = "preamble"
           /\ code[n + 2] = Trailer
           /\ \A i \in 1..n :
                  /\ code[i + 1].decorator = "@mcp.tool()"
                  /\ code[i + 1] = FunctionSource(preview.tools[i])

\* Two tools whose functions differ, so an exchanged, dropped or repeated
\* function would show.
C19_Witness ==
    /\ Previewed /\ Len(preview.tools) = 2
    /\ FunctionSource(preview.tools[1]) # FunctionSource(preview.tools[2])
    /\ Len(preview.serverCode) = 4

(***************************************************************************)
(* C20: a stored inputSchema that does not parse as a well-formed          *)
(* structured object is reported as a schema error for that tool on every  *)
(* path that validates or reads persisted tools for generation, and is     *)
(* never silently replaced by an empty schema.                             *)
(***************************************************************************)
IsSchemaError(e) == e.message \in {"Invalid JSON in schema", "Invalid schema format"}

ParsesAsObject(text) == json_loads(text).ok /\ json_loads(text).value.kind = "dict"

C20_SchemaParseFailureReported ==
    backend.op # "none" =>
        \A i \in 1..Len(backend.rows) :
            LET row == backend.rows[i]
            IN row.input_schema # <<>> /\ ~ParsesAsObject(row.input_schema) =>
                   /\ \E e \in backend.errors : e.tool = row.name /\ IsSchemaError(e)
                   /\ backend.op = "read_tools" => backend.tools[i].input_schema # EmptyDict

\* The validation path alone reports it.
C20_ValidateReportsSchema ==
    backend.op = "validate_project" =>
        \A i \in 1..Len(backend.rows) :
            LET row == backend.rows[i]
            IN row.input_schema # <<>> /\ ~ParsesAsObject(row.input_schema) =>
                   /\ \E e \in backend.errors : e.tool = row.name /\ IsSchemaError(e)
                   /\ ~backend.valid

(***************************************************************************)
(* C21: the documentation block of the generated function holds the tool   *)
(* description, then exactly one line for each parameter that has a        *)
(* non-empty description, in the order of inputSchema.properties, and no   *)
(* line for a parameter without a description.                             *)
(***************************************************************************)
Described == {k \in 1..Len(TheProperties) :
                 TheProperties[k].def.description \notin {Undefined, <<>>}}
LineOf(k) == Cardinality({j \in Described : j <= k})

C21_DocstringLines ==
    OneToolPreviewed =>
        LET doc == TheFunction.docstring
        IN /\ TheTool.description \notin {Undefined, <<>>} =>
                  doc.description = TheTool.description
           /\ Len(doc.args) = Cardinality(Described)
           /\ \A k \in Described :
                  /\ doc.args[LineOf(k)].name = TheProperties[k].name
                  /\ doc.args[LineOf(k)].desc = TheProperties[k].def.description

\* Two parameters, only the second described, under a described tool.
C21_Witness ==
    /\ OneToolPreviewed
    /\ TheTool.description = <<"d">>
    /\ Len(TheProperties) = 2
    /\ Described = {2}
    /\ Len(TheFunction.docstring.args) = 1
    /\ TheFunction.docstring.args[1].name = TheProperties[2].name

(***************************************************************************)
(* C22: validateTools is read-only: at every point of a call, and after    *)
(* it, the ToolSet passed to it (list, order, names, handler fields) is    *)
(* what it was before the call, whether or not errors were found.          *)
(***************************************************************************)
C22_ValidateReadOnly ==
    call.pc # "none" =>
        /\ call.tools = call.before
        /\ call.pc = "returned" => call.errors = validateTools(call.before)

\* A finished call that found errors on a ToolSet of two tools, one of them
\* with a name that lower-casing would change.
C22_Witness ==
    /\ call.pc = "returned"
    /\ Len(call.before) = 2
    /\ Len(call.errors) > 0
    /\ toLowerCase(call.before[1].name) # call.before[1].name
    /\ call.tools = call.before

(***************************************************************************)
(* C23: the debounced auto-update of ToolEditor changes only the parent's  *)
(* in-memory tools state and never sends an update request to the          *)
(* backend; a backend update is sent only by an explicit Save.             *)
(***************************************************************************)
C23_OnlySaveSendsUpdate ==
    editor.mounted =>
        /\ editor.requested \subseteq {"save"}
        /\ \A r \in editor.inflight : r.from = "save"

(***************************************************************************)
(* C30: handleUpdateTool changes exactly one entry: when the backend       *)
(* update succeeds the tools list keeps its length and order and only the  *)
(* entry with the id of the updated tool is replaced; when it fails the    *)
(* tools list and the selected tool are left unchanged.                    *)
(***************************************************************************)
UpdateAnswered ==
    /\ editor.mounted /\ editor'.mounted
    /\ editor'.inflight # editor.inflight
    /\ editor'.inflight \subseteq editor.inflight

C30_UpdateChangesOneEntry ==
    [][UpdateAnswered =>
          /\ editor'.selectedToolId = editor.selectedToolId
          /\ Len(editor'.tools) = Len(editor.tools)
          /\ \A i \in 1..Len(editor.tools) : editor'.tools[i].id = editor.tools[i].id
          /\ editor'.toast \in {"Tool saved", "Failed to save tool"}
          /\ editor'.toast = "Failed to save tool" => editor'.tools = editor.tools
          /\ editor'.toast = "Tool saved" =>
                 \E r \in editor.inflight \ editor'.inflight :
                     \A i \in 1..Len(editor.tools) :
                         editor'.tools[i] = IF editor.tools[i].id = r.tool.id
                                            THEN r.tool ELSE editor.tools[i]]_vars

\* A saved edit of the second tool, the first tool still without endpoint.
C30_Witness ==
    /\ editor.mounted
    /\ editor.toast = "Tool saved"
    /\ editor.inflight = {}
    /\ editor.requested = {"save"}
    /\ editor.selectedToolId = 2
    /\ editor.tools[2].handler_code = <<"u">>
    /\ editor.tools[1].handler_code = Undefined

(***************************************************************************)
(* C27: every built-in template yields a valid tool: the tool that         *)
(* handleSelectTemplate creates from it, alone in a project, makes         *)
(* validateTools return no errors.                                         *)
(***************************************************************************)
FromTemplate(tool) ==
    \E k \in 1..Len(TOOL_TEMPLATES) : tool = TemplateTool(TOOL_TEMPLATES[k])

C27_TemplatesValid ==
    Rendered /\ Len(tools) = 1 /\ FromTemplate(tools[1]) => clientErrors = <<>>

(***************************************************************************)
(* C29: the conversions of SchemaBuilder round-trip: for every list of     *)
(* properties with non-blank names, schemaToProperties of                  *)
(* propertiesToSchema of the list has the same length and, position by     *)
(* position, the same name, type, description and required flag.           *)
(***************************************************************************)
NonBlankNames(list) == \A i \in 1..Len(list) : trim(list[i].name) # <<>>

C29_SchemaRoundTrip ==
    schemaBuilder.mounted /\ schemaBuilder.reopened /\ NonBlankNames(schemaBuilder.edited) =>
        /\ Len(schemaBuilder.properties) = Len(schemaBuilder.edited)
        /\ \A i \in 1..Len(schemaBuilder.edited) :
               /\ schemaBuilder.properties[i].name = schemaBuilder.edited[i].name
               /\ schemaBuilder.properties[i].type = schemaBuilder.edited[i].type
               /\ schemaBuilder.properties[i].description = schemaBuilder.edited[i].description
               /\ schemaBuilder.properties[i].required = schemaBuilder.edited[i].required

\* The same with names that are pairwise different and are no array index.
C29_DistinctPlainNamesRoundTrip ==
    /\ schemaBuilder.mounted /\ schemaBuilder.reopened
    /\ NonBlankNames(schemaBuilder.edited)
    /\ \A i, j \in 1..Len(schemaBuilder.edited) :
           i # j => schemaBuilder.edited[i].name # schemaBuilder.edited[j].name
    /\ \A i \in 1..Len(schemaBuilder.edited) : ~IsArrayIndex(schemaBuilder.edited[i].name)
    => schemaBuilder.properties = schemaBuilder.edited

(***************************************************************************)
(* C24: useWebSocket reconnects after a close: whenever a socket closes or *)
(* errors while the hook stays mounted with the same projectId, a new      *)
(* connection attempt is eventually made, unless the current socket is     *)
(* open at that moment.                                                    *)
(***************************************************************************)
SocketExists(n) == socket.mounted /\ n \in 1..Len(socket.sockets)
EffectLive(n) == socket.alive /\ socket.effect = socket.sockets[n].effect
ClosedOrFailing(n) ==
    SocketExists(n) /\ socket.sockets[n].readyState \in {"closing", "closed"}
Reconnected(n) ==
    /\ SocketExists(n)
    /\ \/ socket.sockets[n].made = "connected"
       \/ socket.sockets[n].made = "skipped" /\ socket.sockets[n].openAtFire

C24_ReconnectsAfterClose ==
    \A n \in SocketIds :
        (ClosedOrFailing(n) /\ EffectLive(n))
            ~> (Reconnected(n) \/ (SocketExists(n) /\ ~EffectLive(n)))

\* A socket of the live effect was lost and its timer made the next socket.
C24_Witness ==
    /\ SocketExists(2)
    /\ socket.alive /\ socket.effect = 1
    /\ socket.sockets[1].made = "connected"
    /\ socket.sockets[2].effect = 1
    /\ socket.current = 2

(***************************************************************************)
(* C25: after the cleanup of useWebSocket has run, the disposed effect     *)
(* never opens another socket and leaves no reconnect timer pending, under *)
(* any interleaving of the close event, the reconnect timer and the        *)
(* cleanup.                                                                *)
(***************************************************************************)
C25_NothingAfterCleanup ==
    socket.mounted =>
        \A n \in 1..Len(socket.sockets) :
            /\ ~socket.sockets[n].afterCleanup
            /\ socket.sockets[n].timer = "pending" => EffectLive(n)

(***************************************************************************)
(* C26: once all server validation requests have completed, the displayed  *)
(* server errors are those returned for the most recent tools state: the   *)
(* response of an earlier validateProject request never overwrites the     *)
(* response of a later one.                                                *)
(***************************************************************************)
C26_LatestResponseShown ==
    panel.mounted /\ panel.inflight = {} /\ ~panel.timer /\ panel.latestAnswered =>
        panel.serverErrors = ValidateProjectResponse(panel.tools).errors

(***************************************************************************)
(* C28: the client validator and the server validator agree on validity:   *)
(* for every set of tools with well-formed schemas, validateTools returns  *)
(* no errors exactly when validate_project returns valid = true.           *)
(***************************************************************************)
C28_ValidatorsAgree ==
    panel.mounted =>
        (panel.clientErrors = <<>>) = ValidateProjectResponse(panel.tools).valid

====
